---------------------------- MODULE Spec2Model ----------------------------
(***************************************************************************)
(* svc-video: the request handlers of src/src/app.js and the storage       *)
(* helpers of src/src/azureStorage.js as a state machine.                  *)
(*                                                                         *)
(* Every handler is an async function; it runs without interruption up to  *)
(* its next await, where handlers of other requests may run.  A request is *)
(* therefore a small process: reqs[s].pc names the await it is parked at,  *)
(* and one action models the code between two awaits.  The metadata store  *)
(* (db), the storage backend (blobs) and the clock (now) are shared.       *)
(* response is the output of a step: the request it finished, if any.      *)
(*                                                                         *)
(* Spec is the whole service.  SpecIngest, SpecAssets, SpecTranscription, *)
(* SpecListing, SpecLocalFiles, SpecGrants and SpecFollowUp are the        *)
(* service restricted to the routes of one concern each, and are the       *)
(* specifications the properties are stated for.  held is a caller of the  *)
(* access-URL route, who uses the URL it was sent.                         *)
(*                                                                         *)
(* Text (file names, grouping ids, blob names) is a sequence of one-       *)
(* character strings, so that concatenation and the extension-stripping    *)
(* regular expression are computed as the code computes them.              *)
(***************************************************************************)
EXTENDS Integers, Sequences, FiniteSets, TLC

VARIABLES
    useAzure,   \* USE_AZURE: chosen once at startup
    credential, \* kind of blobServiceClient.credential: "sharedKey" or "token"
    db,         \* the VideoUpload table: id -> row
    blobs,      \* objects held by the storage backend: <<container, name>>
    writes,     \* history: every <<container, name>> ever written successfully
    now,        \* the clock read by Date.now() and CURRENT_TIMESTAMP
    nextId,     \* ids handed out so far (ids are never reused)
    nextJob,    \* job handles handed out by the transcription service so far
    started,    \* requests accepted so far
    reqs,       \* the requests in flight, one per slot
    response,   \* the request that the last step finished, with its response
    held        \* a client of the service: the signed URL it holds, if any

vars == <<useAzure, credential, db, blobs, writes, now, nextId, nextJob, started,
          reqs, response, held>>

-----------------------------------------------------------------------------
(* Bounds of the model *)

MaxRequests == 3

MaxClock == 1

Slots == {1, 2}

-----------------------------------------------------------------------------
(* Values *)

(* undefined / null, per type *)
NoValue == "undefined"

NoText == << >>

NoRow == [ id |-> 0 ]

NoJob == 0

AZURE_STORAGE_CONTAINER == <<"v", "i", "d", "e", "o", "s">>

LocalContainer == <<"l", "o", "c", "a", "l">>

allowedMimeTypes ==
    { "video/mp4", "video/mpeg", "video/quicktime",
      "video/x-msvideo", "video/x-matroska", "video/webm" }

EncodingStatus == { "pending", "processing", "completed", "failed" }

(* Inputs the model draws requests from *)
LectureIds == { <<"L", "1">>, <<"L", "2">> }

OriginalNames == { <<"a", ".", "m", "p", "4">> }

MimeTypes == { "video/mp4", "text/plain" }

FileSizes == { 7 }

(* A grouping id as a hostile caller may send it: express decodes %2F in *)
(* a route parameter, so ..%2Fd arrives as ../d                            *)
TraversalLectureIds == { <<".", ".", "/", "d">> }

(* path.join(__dirname, "..", "local-storage"), shortened to /d *)
LOCAL_STORAGE_DIR == <<"/", "d">>

(* The ids a caller may name: those handed out so far, and one that never was *)
IdInputs == 1 .. nextId + 1

-----------------------------------------------------------------------------
(* Text helpers *)

Digit(d) == CASE d = 0 -> "0" [] d = 1 -> "1" [] d = 2 -> "2" [] d = 3 -> "3"
              [] d = 4 -> "4" [] d = 5 -> "5" [] d = 6 -> "6" [] d = 7 -> "7"
              [] d = 8 -> "8" [] d = 9 -> "9"

RECURSIVE Decimal(_)
Decimal(n) == IF n < 10 THEN << Digit(n) >>
              ELSE Decimal(n \div 10) \o << Digit(n % 10) >>

(* `${lectureId}_${timestamp}_${originalFilename}` *)
UniqueFilename(lectureId, timestamp, originalFilename) ==
    lectureId \o <<"_">> \o Decimal(timestamp) \o <<"_">> \o originalFilename

(* blob_name.replace(/\.[^.]+$/, ""): drop a final ".ext" of one or more  *)
(* characters none of which is a dot.                                      *)
LastDot(name) ==
    LET dots == { i \in 1 .. Len(name) : name[i] = "." }
    IN  IF dots = {} THEN 0 ELSE CHOOSE i \in dots : \A j \in dots : j <= i

BaseName(name) ==
    LET d == LastDot(name)
    IN  IF d > 0 /\ d < Len(name) THEN SubSeq(name, 1, d - 1) ELSE name

(* The segments of a path between its "/" *)
RECURSIVE Segments(_)
Segments(p) ==
    IF p = << >> THEN << << >> >>
    ELSE LET rest == Segments(Tail(p))
         IN  IF Head(p) = "/" THEN << << >> >> \o rest
             ELSE << << Head(p) >> \o Head(rest) >> \o Tail(rest)

(* path.normalize on the segments of an absolute path: "" and "." are    *)
(* dropped, ".." drops the segment before it                               *)
RECURSIVE Resolve(_, _)
Resolve(segs, stack) ==
    IF segs = << >> THEN stack
    ELSE LET h == Head(segs)
         IN  Resolve(Tail(segs),
                     IF Len(h) = 0 \/ h = << "." >> THEN stack
                     ELSE IF h = << ".", "." >>
                     THEN (IF Len(stack) = 0 THEN stack
                           ELSE SubSeq(stack, 1, Len(stack) - 1))
                     ELSE Append(stack, h))

RECURSIVE Absolute(_)
Absolute(stack) ==
    IF stack = << >> THEN << >>
    ELSE << "/" >> \o Head(stack) \o Absolute(Tail(stack))

(* path.join(dir, name) for an absolute dir *)
PathJoin(dir, name) ==
    LET p == Absolute(Resolve(Segments(dir \o << "/" >> \o name), << >>))
    IN  IF p = << >> THEN << "/" >> ELSE p

(* String.prototype.startsWith *)
StartsWith(text, prefix) ==
    Len(text) >= Len(prefix) /\ SubSeq(text, 1, Len(prefix)) = prefix

AzureUrl(container, name) == << "blob", container, name >>

GatewayVideoUrl(name) == << "gateway", name >>

-----------------------------------------------------------------------------
(* Requests *)

Idle ==
    [ kind |-> "idle", pc |-> "done",
      lectureId |-> NoText, id |-> 0,
      originalname |-> NoText, mimetype |-> NoValue, size |-> 0,
      uniqueFilename |-> NoText, blobUrl |-> NoText,
      upload |-> NoRow, patch |-> NoValue,
      physical |-> NoValue, collab |-> NoValue, job |-> NoJob, grants |-> << >>,
      sign |-> NoValue, filename |-> NoText, filePath |-> NoText,
      status |-> 0, body |-> NoRow, err |-> NoValue ]

(* The first slot that holds no request in flight *)
Vacant(s) ==
    /\ reqs[s].pc = "done"
    /\ \A t \in Slots : t < s => reqs[t].pc # "done"

(* A new request takes the first vacant slot *)
Free(s) ==
    /\ Vacant(s)
    /\ started < MaxRequests

(* res.status(code).json(body): the request is finished *)
Respond(r, code, body) == [ r EXCEPT !.pc = "done", !.status = code, !.body = body ]

(* res.status(code).json({ error: msg }) *)
Refuse(r, code, msg) == Respond(r, code, [ error |-> msg ])

(* catch (error) { res.status(500).json({ error: msg }) } *)
Caught(r, error, msg) ==
    [ r EXCEPT !.pc = "done", !.status = 500, !.body = [ error |-> msg ], !.err = error ]

(* The handler of slot s has run to its next await, or to its response: *)
(* a finished request leaves its slot, and response shows it, with the     *)
(* response it got, until the next step.                                   *)
Settle(s, r) ==
    IF r.pc = "done"
    THEN /\ reqs' = [ reqs EXCEPT ![s] = Idle ]
         /\ response' = r
    ELSE /\ reqs' = [ reqs EXCEPT ![s] = r ]
         /\ response' = Idle

(* A client that holds no URL *)
NoHeld ==
    [ token |-> [ url |-> NoText, signed |-> FALSE, signedBy |-> NoValue,
                  permissions |-> {}, startsOn |-> 0, expiresOn |-> 0 ],
      expiresIn |-> 0, at |-> 0, presentedAt |-> 0,
      verdict |-> NoValue ]

-----------------------------------------------------------------------------
(* Initial state *)

Init ==
    /\ useAzure \in BOOLEAN
    /\ credential \in { "sharedKey", "token" }
    /\ (~useAzure => credential = "sharedKey")   \* no client is built: unused
    /\ db = << >>
    /\ blobs = {}
    /\ writes = {}
    /\ now = 0
    /\ nextId = 0
    /\ nextJob = 0
    /\ started = 0
    /\ reqs = [ s \in Slots |-> Idle ]
    /\ response = Idle
    /\ held = NoHeld

(* Time passes *)
Tick ==
    /\ now < MaxClock
    /\ now' = now + 1
    /\ response' = Idle
    /\ UNCHANGED << useAzure, credential, held, db, blobs, writes, nextId, nextJob, started, reqs >>

-----------------------------------------------------------------------------
(* The metadata store *)

Row(id, r, container, createdAt) ==
    [ id |-> id, lecture_id |-> r.lectureId, filename |-> r.uniqueFilename,
      original_filename |-> r.originalname, file_size |-> r.size,
      mime_type |-> r.mimetype, blob_url |-> r.blobUrl,
      blob_container |-> container, blob_name |-> r.uniqueFilename,
      encoding_status |-> "completed", transcription_job_id |-> NoJob,
      created_at |-> createdAt ]

(* prisma.videoUpload.findUnique({ where: { id } }) *)
FindUnique(id) == IF id \in DOMAIN db THEN db[id] ELSE NoRow

(* prisma.videoUpload.delete({ where: { id } }) *)
Without(id) == [ i \in DOMAIN db \ {id} |-> db[i] ]

-----------------------------------------------------------------------------
(* Ingest: POST /api/lectures/:lectureId/upload and POST /api/uploads/:lectureId *)

(* FileFilter with a fault: every file is accepted *)
FileFilterAcceptsAll(mimetype) == TRUE

(* multer's fileFilter *)
FileFilter(mimetype) == mimetype \in allowedMimeTypes

(* AfterWrite with a fault: a failed write is swallowed and the handler   *)
(* goes on to create the record                                            *)
AfterWriteSwallowed(r, ok, url) == [ r EXCEPT !.pc = "create", !.blobUrl = url ]

(* What the handler does with the outcome of the storage write: a write   *)
(* that throws leaves the try block for the catch.                         *)
AfterWrite(r, ok, url) ==
    IF ok THEN [ r EXCEPT !.pc = "create", !.blobUrl = url ]
    ELSE Caught(r, "storage", "Failed to upload video")

(* The synchronous head of the handler, up to its first await.  In local  *)
(* mode fs.writeFileSync is part of it; with Azure the handler parks at    *)
(* await uploadBlob(...).  lectureIds are the values of req.params         *)
(* .lectureId that callers send.                                           *)
UploadHandlerFor(s, lectureIds) ==
    /\ Free(s)
    /\ started' = started + 1
    /\ \E lectureId \in lectureIds, hasFile \in BOOLEAN, name \in OriginalNames,
          mimetype \in MimeTypes, size \in FileSizes, ok \in BOOLEAN :
         LET r0 == [ Idle EXCEPT !.kind = "upload", !.lectureId = lectureId ]
             r1 == [ r0 EXCEPT !.originalname = name, !.mimetype = mimetype,
                               !.size = size,
                               !.uniqueFilename = UniqueFilename(lectureId, now, name) ]
             obj == << LocalContainer, r1.uniqueFilename >>
         IN  IF ~hasFile
             THEN /\ Settle(s, Refuse(r0, 400, "No video file provided"))
                  /\ UNCHANGED << blobs, writes >>
             ELSE IF ~FileFilter(mimetype)
             THEN /\ Settle(s,
                                 [ Caught(r0, "filter", "Only video files are allowed")
                                     EXCEPT !.mimetype = mimetype ])
                  /\ UNCHANGED << blobs, writes >>
             ELSE IF useAzure
             THEN /\ Settle(s, [ r1 EXCEPT !.pc = "uploadBlob" ])
                  /\ UNCHANGED << blobs, writes >>
             ELSE /\ Settle(s,
                                 AfterWrite(r1, ok, GatewayVideoUrl(r1.uniqueFilename)))
                  /\ blobs' = IF ok THEN blobs \cup {obj} ELSE blobs
                  /\ writes' = IF ok THEN writes \cup {obj} ELSE writes
    /\ UNCHANGED << useAzure, credential, held, db, now, nextId, nextJob >>

(* The handler for the grouping ids of well-behaved callers *)
UploadHandler(s) == UploadHandlerFor(s, LectureIds)

(* POST /api/lectures/:lectureId/upload *)
UploadLecture(s) == UploadHandler(s)

(* POST /api/uploads/:lectureId: the same handler body under another path *)
UploadAlt(s) == UploadHandler(s)

IsUpload(r) == r.kind = "upload"

(* uploadBlob: createIfNotExists, then uploadData; either may reject *)
UploadBlob(s) ==
    /\ IsUpload(reqs[s]) /\ reqs[s].pc = "uploadBlob"
    /\ \E ok \in BOOLEAN :
         LET r   == reqs[s]
             obj == << AZURE_STORAGE_CONTAINER, r.uniqueFilename >>
         IN  /\ Settle(s,
                            AfterWrite(r, ok, AzureUrl(AZURE_STORAGE_CONTAINER, r.uniqueFilename)))
             /\ blobs' = IF ok THEN blobs \cup {obj} ELSE blobs
             /\ writes' = IF ok THEN writes \cup {obj} ELSE writes
    /\ UNCHANGED << useAzure, credential, held, db, now, nextId, nextJob, started >>

(* prisma.videoUpload.create, then the 201 response *)
UploadCreate(s) ==
    /\ IsUpload(reqs[s]) /\ reqs[s].pc = "create"
    /\ \E ok \in BOOLEAN :
         LET r   == reqs[s]
             id  == nextId + 1
             row == Row(id, r, IF useAzure THEN AZURE_STORAGE_CONTAINER ELSE LocalContainer, now)
         IN  IF ok
             THEN /\ db' = (id :> row) @@ db
                  /\ nextId' = id
                  /\ Settle(s, Respond(r, 201, row))
             ELSE /\ Settle(s, Caught(r, "db", "Failed to upload video"))
                  /\ UNCHANGED << db, nextId >>
    /\ UNCHANGED << useAzure, credential, held, blobs, writes, now, nextJob, started >>

-----------------------------------------------------------------------------
(* Delete: DELETE /api/uploads/:id *)

(* findUnique, the 404, and the choice of the next await *)
DeleteFind(s) ==
    /\ Free(s)
    /\ started' = started + 1
    /\ \E id \in IdInputs :
         LET r0     == [ Idle EXCEPT !.kind = "delete", !.id = id ]
             upload == FindUnique(id)
         IN  Settle(s,
                 IF upload = NoRow THEN Refuse(r0, 404, "Upload not found")
                 ELSE [ r0 EXCEPT !.upload = upload,
                                  !.pc = IF useAzure THEN "deleteBlob" ELSE "deleteRecord" ])
    /\ UNCHANGED << useAzure, credential, held, db, blobs, writes, now, nextId, nextJob >>

(* deleteBlob: blockBlobClient.deleteIfExists() *)
DeleteBlob(s) ==
    /\ reqs[s].kind = "delete" /\ reqs[s].pc = "deleteBlob"
    /\ \E ok \in BOOLEAN :
         LET r   == reqs[s]
             obj == << r.upload.blob_container, r.upload.blob_name >>
         IN  IF ok
             THEN /\ blobs' = blobs \ {obj}
                  /\ Settle(s,
                        [ r EXCEPT !.pc = "deleteRecord",
                                   !.physical = IF obj \in blobs THEN "deleted" ELSE "missing" ])
             ELSE /\ blobs' = blobs
                  /\ Settle(s,
                        [ Caught(r, "storage", "Failed to delete upload")
                            EXCEPT !.physical = "failed" ])
    /\ UNCHANGED << useAzure, credential, held, db, writes, now, nextId, nextJob, started >>

(* prisma.videoUpload.delete, which rejects when the row is gone *)
DeleteRecord(s) ==
    /\ reqs[s].kind = "delete" /\ reqs[s].pc = "deleteRecord"
    /\ LET r == reqs[s]
         IN  IF r.id \notin DOMAIN db
             THEN /\ Settle(s, Caught(r, "P2025", "Failed to delete upload"))
                  /\ db' = db
             ELSE /\ db' = Without(r.id)
                  /\ Settle(s, Respond(r, 200, [ message |-> "Upload deleted successfully" ]))
    /\ UNCHANGED << useAzure, credential, held, blobs, writes, now, nextId, nextJob, started >>

-----------------------------------------------------------------------------
(* List: GET /api/lectures/:lectureId/uploads *)

(* select: { id: true, lecture_id: true, ... }: the fields of a row that *)
(* the list hands out.  (hls_url, duration, resolution and updated_at are  *)
(* selected too and are not part of the rows of this model; user_id,       *)
(* blob_container, blob_name and transcription_job_id are not selected.)   *)
Select(row) ==
    [ id |-> row.id, lecture_id |-> row.lecture_id, filename |-> row.filename,
      original_filename |-> row.original_filename, file_size |-> row.file_size,
      mime_type |-> row.mime_type, blob_url |-> row.blob_url,
      encoding_status |-> row.encoding_status, created_at |-> row.created_at ]

(* The orders in which rows may come back under orderBy: { created_at:   *)
(* "desc" }: rows created in the same instant are in no defined order.     *)
NewestFirst(ids) ==
    { q \in [ 1 .. Cardinality(ids) -> ids ] :
        /\ \A i, j \in DOMAIN q : i # j => q[i] # q[j]
        /\ \A i, j \in DOMAIN q : i < j => db[q[i]].created_at >= db[q[j]].created_at }

(* FindMany with a fault: the where clause is left out *)
FindManyOfAnyLecture(lectureId) ==
    { [ i \in DOMAIN q |-> Select(db[q[i]]) ] : q \in NewestFirst(DOMAIN db) }

(* prisma.videoUpload.findMany({ where: { lecture_id }, orderBy, select }) *)
FindMany(lectureId) ==
    LET ids == { id \in DOMAIN db : db[id].lecture_id = lectureId }
    IN  { [ i \in DOMAIN q |-> Select(db[q[i]]) ] : q \in NewestFirst(ids) }

ListUploads(s) ==
    /\ Free(s)
    /\ started' = started + 1
    /\ \E lectureId \in LectureIds :
         \E uploads \in FindMany(lectureId) :
           LET r0 == [ Idle EXCEPT !.kind = "list", !.lectureId = lectureId ]
           IN  Settle(s, Respond(r0, 200, [ uploads |-> uploads ]))
    /\ UNCHANGED << useAzure, credential, held, db, blobs, writes, now, nextId, nextJob >>

-----------------------------------------------------------------------------
(* Fetch one: GET /api/uploads/:id *)

FetchOne(s) ==
    /\ Free(s)
    /\ started' = started + 1
    /\ \E id \in IdInputs :
         LET r0     == [ Idle EXCEPT !.kind = "fetch", !.id = id ]
             upload == FindUnique(id)
         IN  Settle(s,
                 IF upload = NoRow THEN Refuse(r0, 404, "Upload not found")
                 ELSE Respond([ r0 EXCEPT !.upload = upload ], 200, upload))
    /\ UNCHANGED << useAzure, credential, held, db, blobs, writes, now, nextId, nextJob >>

-----------------------------------------------------------------------------
(* Update encoding status: PATCH /api/uploads/:id/encoding-status *)

(* The data of prisma.videoUpload.update: a field that is undefined in    *)
(* the request body is left as it is.  (hls_url, duration and resolution   *)
(* are written the same way and are not part of the rows of this model.)   *)
PatchedRow(row, encoding_status) ==
    IF encoding_status = NoValue THEN row
    ELSE [ row EXCEPT !.encoding_status = encoding_status ]

(* prisma.videoUpload.update({ where: { id }, data }) rejects when no row *)
(* has the id; the handler has no lookup and no 404 of its own.            *)
PatchStatus(s) ==
    /\ Free(s)
    /\ started' = started + 1
    /\ \E id \in IdInputs, encoding_status \in EncodingStatus \cup {NoValue} :
         LET r0 == [ Idle EXCEPT !.kind = "patch", !.id = id, !.patch = encoding_status ]
         IN  IF id \notin DOMAIN db
             THEN /\ Settle(s,
                                 Caught(r0, "P2025", "Failed to update encoding status"))
                  /\ db' = db
             ELSE LET row == PatchedRow(db[id], encoding_status)
                  IN  /\ db' = [ db EXCEPT ![id] = row ]
                      /\ Settle(s,
                                     Respond([ r0 EXCEPT !.upload = db[id] ], 200, row))
    /\ UNCHANGED << useAzure, credential, held, blobs, writes, now, nextId, nextJob >>

-----------------------------------------------------------------------------
(* Access grants: generateSasUrl of azureStorage.js *)

PermissionOf(c) ==
    CASE c = "r" -> "read" [] c = "w" -> "write" [] c = "c" -> "create"
      [] c = "d" -> "delete" [] c = "a" -> "add"

(* BlobSASPermissions.parse *)
BlobSASPermissionsParse(chars) == { PermissionOf(chars[i]) : i \in 1 .. Len(chars) }

(* A URL as handed to a caller: the object's URL, and the SAS token after *)
(* the "?" when there is one.                                              *)
PlainUrl(url) ==
    [ url |-> url, signed |-> FALSE, signedBy |-> NoValue, permissions |-> {},
      startsOn |-> 0, expiresOn |-> 0 ]

SasToken(url, key, permissions, startsOn, expiresInMinutes) ==
    [ url |-> url, signed |-> TRUE, signedBy |-> key, permissions |-> permissions,
      startsOn |-> startsOn,
      expiresOn |-> startsOn + expiresInMinutes * 60 * 1000 ]

(* SharedKeySas with a fault: the token is signed with every permission *)
SharedKeySasAllPermissions(containerName, blobName, expiresInMinutes, t) ==
    SasToken(AzureUrl(containerName, blobName), "accountKey",
             BlobSASPermissionsParse(<<"r", "a", "c", "w", "d">>), t, expiresInMinutes)

(* The branch taken for a StorageSharedKeyCredential *)
SharedKeySas(containerName, blobName, expiresInMinutes, t) ==
    SasToken(AzureUrl(containerName, blobName), "accountKey",
             BlobSASPermissionsParse(<<"r">>), t, expiresInMinutes)

(* UserDelegationSas with a fault: the minutes are taken for seconds *)
UserDelegationSasInSeconds(containerName, blobName, expiresInMinutes, t) ==
    [ SasToken(AzureUrl(containerName, blobName), "userDelegationKey",
               BlobSASPermissionsParse(<<"r">>), t, expiresInMinutes)
        EXCEPT !.expiresOn = t + expiresInMinutes * 1000 ]

(* The branch taken otherwise: a user delegation key, then the signature *)
UserDelegationSas(containerName, blobName, expiresInMinutes, t) ==
    SasToken(AzureUrl(containerName, blobName), "userDelegationKey",
             BlobSASPermissionsParse(<<"r">>), t, expiresInMinutes)

(* GenerateSasUrl with a fault: the catch block hands back the URL of the *)
(* container, not of the object asked for                                  *)
GenerateSasUrlContainerFallback(containerName, blobName, expiresInMinutes, t, signOk) ==
    IF ~signOk THEN PlainUrl(AzureUrl(containerName, NoText))
    ELSE IF credential = "sharedKey"
    THEN SharedKeySas(containerName, blobName, expiresInMinutes, t)
    ELSE UserDelegationSas(containerName, blobName, expiresInMinutes, t)

(* generateSasUrl(blobServiceClient, containerName, blobName,             *)
(* expiresInMinutes = 60): it has four parameters; a fifth argument of a   *)
(* caller is not read.  signOk is whether the try block ran through (the   *)
(* delegation-key round trip and the signing); otherwise the catch block   *)
(* returns blobClient.url.                                                 *)
GenerateSasUrl(containerName, blobName, expiresInMinutes, t, signOk) ==
    IF ~signOk THEN PlainUrl(AzureUrl(containerName, blobName))
    ELSE IF credential = "sharedKey"
    THEN SharedKeySas(containerName, blobName, expiresInMinutes, t)
    ELSE UserDelegationSas(containerName, blobName, expiresInMinutes, t)

(* What a caller asked for and what it got *)
Grant(blobName, permission, token) ==
    [ blobName |-> blobName, requested |-> permission, token |-> token ]

-----------------------------------------------------------------------------
(* Request an access URL: GET /api/uploads/:id/sas-url *)

(* Number(text) for the query strings of the model; the others are NaN *)
NumberOf(text) ==
    CASE text = "0" -> [ nan |-> FALSE, value |-> 0 ]
      [] text = "5" -> [ nan |-> FALSE, value |-> 5 ]
      [] OTHER      -> [ nan |-> TRUE, value |-> 0 ]

(* Number(req.query.expiresIn) || 60: NaN and 0 are falsy *)
ExpiresIn(query) ==
    LET n == NumberOf(query)
    IN  IF n.nan \/ n.value = 0 THEN 60 ELSE n.value

ExpiresInInputs == { NoValue, "0", "5" }

SasUrl(s) ==
    /\ Free(s)
    /\ started' = started + 1
    /\ \E id \in IdInputs, query \in ExpiresInInputs, signOk \in BOOLEAN :
         LET r0        == [ Idle EXCEPT !.kind = "sas", !.id = id ]
             upload    == FindUnique(id)
             expiresIn == ExpiresIn(query)
             r1        == [ r0 EXCEPT !.upload = upload ]
         IN  Settle(s,
                 IF upload = NoRow THEN Refuse(r0, 404, "Upload not found")
                 ELSE IF ~useAzure
                 THEN Respond(r1, 200, [ url |-> PlainUrl(upload.blob_url), expiresIn |-> 0 ])
                 ELSE LET sasUrl == GenerateSasUrl(upload.blob_container, upload.blob_name,
                                                   expiresIn, now, signOk)
                      IN  Respond([ r1 EXCEPT !.grants =
                                      << Grant(upload.blob_name, "read", sasUrl) >>,
                                      !.sign = IF signOk THEN "ok" ELSE "failed" ],
                                  200, [ url |-> sasUrl, expiresIn |-> expiresIn ]))
    /\ UNCHANGED << useAzure, credential, held, db, blobs, writes, now, nextId, nextJob >>

-----------------------------------------------------------------------------
(* A client that uses a signed URL.  The storage backend honours a SAS    *)
(* token from its startsOn to its expiresOn, the two instants that         *)
(* generateSasUrl signs into it.                                           *)

BackendAccepts(token, t) == token.startsOn <= t /\ t <= token.expiresOn

(* The client, holding no URL or done with the one it holds, takes the   *)
(* signed URL out of the response it was just sent                         *)
ReceiveUrl ==
    /\ held = NoHeld \/ held.verdict # NoValue
    /\ response.kind = "sas" /\ response.status = 200
    /\ response.body.url.signed
    /\ held' = [ token |-> response.body.url, expiresIn |-> response.body.expiresIn,
                 at |-> now, presentedAt |-> 0,
                 verdict |-> NoValue ]
    /\ response' = Idle
    /\ UNCHANGED << useAzure, credential, db, blobs, writes, now, nextId, nextJob,
                    started, reqs >>

(* The client lets the minutes it was told go by, or a millisecond more, *)
(* before it presents the URL                                              *)
Wait ==
    /\ held.token.signed /\ held.verdict = NoValue
    /\ now < held.at + held.expiresIn * 60 * 1000
    /\ \E late \in { 0, 1 } : now' = now + held.expiresIn * 60 * 1000 + late
    /\ response' = Idle
    /\ UNCHANGED << useAzure, credential, held, db, blobs, writes, nextId, nextJob,
                    started, reqs >>

(* The client presents the URL to the storage backend, once *)
Present ==
    /\ held.token.signed /\ held.verdict = NoValue
    /\ held' = [ held EXCEPT !.presentedAt = now,
                             !.verdict = IF BackendAccepts(held.token, now)
                                         THEN "accepted" ELSE "rejected" ]
    /\ response' = Idle
    /\ UNCHANGED << useAzure, credential, db, blobs, writes, now, nextId, nextJob,
                    started, reqs >>

-----------------------------------------------------------------------------
(* Serve a stored video: GET /api/videos/:filename *)

(* The files on the local disk: fs.writeFileSync(path.join(               *)
(* LOCAL_STORAGE_DIR, uniqueFilename), ...) of the upload handler wrote    *)
(* them                                                                    *)
LocalFiles ==
    { PathJoin(LOCAL_STORAGE_DIR, o[2]) : o \in { b \in blobs : b[1] = LocalContainer } }

(* req.params.filename as callers send it: the names of stored videos,   *)
(* the parent directory, and a name that was never stored                  *)
FilenameInputs ==
    { o[2] : o \in blobs } \cup { << ".", "." >>, << "x" >> }

(* POST /api/lectures/:lectureId/upload, hostile callers included *)
UploadAnyLecture(s) == UploadHandlerFor(s, LectureIds \cup TraversalLectureIds)

ServeVideo(s) ==
    /\ Free(s)
    /\ started' = started + 1
    /\ \E filename \in FilenameInputs :
         LET filePath == PathJoin(LOCAL_STORAGE_DIR, filename)
             r0       == [ Idle EXCEPT !.kind = "serve", !.filename = filename,
                                       !.filePath = filePath ]
         IN  Settle(s,
                 IF ~StartsWith(filePath, LOCAL_STORAGE_DIR)
                 THEN Refuse(r0, 403, "Access denied")
                 ELSE IF filePath \notin LocalFiles
                 THEN Refuse(r0, 404, "Video not found")
                 ELSE Respond(r0, 200, [ file |-> filePath ]))
    /\ UNCHANGED << useAzure, credential, held, db, blobs, writes, now, nextId, nextJob >>

-----------------------------------------------------------------------------
(* Transcription: POST /api/lectures/:lectureId/transcribe *)

(* prisma.videoUpload.findFirst({ where: { lecture_id }, orderBy:         *)
(* { created_at: "desc" } }): the rows it may return (rows created in the  *)
(* same instant are in no defined order).                                  *)
FindFirst(lectureId) ==
    LET rows == { db[i] : i \in { j \in DOMAIN db : db[j].lecture_id = lectureId } }
    IN  IF rows = {} THEN { NoRow }
        ELSE { u \in rows : \A v \in rows : v.created_at <= u.created_at }

JsonName(blobName) == BaseName(blobName) \o << ".", "j", "s", "o", "n" >>

VttName(blobName) == BaseName(blobName) \o << ".", "v", "t", "t" >>

(* The three URLs handed to the transcription service.  The handler       *)
(* passes false / true as a fifth argument of generateSasUrl to ask for    *)
(* read / write permission.                                                *)
TranscribeGrants(upload, t, ok) ==
    IF useAzure
    THEN << Grant(upload.blob_name, "read",
                  GenerateSasUrl(upload.blob_container, upload.blob_name, 120, t, ok[1])),
            Grant(JsonName(upload.blob_name), "write",
                  GenerateSasUrl(upload.blob_container, JsonName(upload.blob_name), 120, t, ok[2])),
            Grant(VttName(upload.blob_name), "write",
                  GenerateSasUrl(upload.blob_container, VttName(upload.blob_name), 120, t, ok[3])) >>
    ELSE << Grant(upload.blob_name, "read", PlainUrl(upload.blob_url)),
            Grant(JsonName(upload.blob_name), "write",
                  PlainUrl(GatewayVideoUrl(JsonName(upload.blob_name)))),
            Grant(VttName(upload.blob_name), "write",
                  PlainUrl(GatewayVideoUrl(VttName(upload.blob_name)))) >>

(* Whether each of the three calls of generateSasUrl runs through: the   *)
(* model draws the cases in which all do and in which none does.           *)
SignOutcomes == { [ i \in 1 .. 3 |-> b ] : b \in BOOLEAN }

(* What the handler does once findFirst has answered *)
AfterFindForTranscribe(r, upload, grants) ==
    IF upload = NoRow THEN Refuse(r, 404, "No video found for this lecture")
    ELSE [ r EXCEPT !.upload = upload, !.grants = grants, !.pc = "submit" ]

(* findFirst, the 404, and the grants, up to await fetch(...) *)
TranscribeFind(s) ==
    /\ Free(s)
    /\ started' = started + 1
    /\ \E lectureId \in LectureIds, signOk \in SignOutcomes :
         \E upload \in FindFirst(lectureId) :
           LET r0 == [ Idle EXCEPT !.kind = "transcribe", !.lectureId = lectureId ]
           IN  Settle(s,
                   AfterFindForTranscribe(r0, upload,
                       IF upload = NoRow THEN << >>
                       ELSE TranscribeGrants(upload, now, signOk)))
    /\ UNCHANGED << useAzure, credential, held, db, blobs, writes, now, nextId, nextJob >>

(* AfterSubmit with a fault: response.ok is not looked at *)
AfterSubmitUnchecked(r, responseOk, job_id) == [ r EXCEPT !.job = job_id, !.pc = "store" ]

(* What the handler does with the answer of the transcription service:   *)
(* if (!response.ok) throw ...; otherwise it goes on to store job_id.      *)
AfterSubmit(r, responseOk, job_id) ==
    IF responseOk
    THEN [ r EXCEPT !.job = job_id, !.pc = "store" ]
    ELSE Caught(r, "collaborator", "Failed to start transcription")

(* fetch(`${GATEWAY_URL}/api/transcriptions`, { method: "POST", ... }):  *)
(* the service answers with a new job handle, or with a non-success        *)
(* status and no handle.  collab records its answer.                       *)
TranscribeSubmit(s) ==
    /\ reqs[s].kind = "transcribe" /\ reqs[s].pc = "submit"
    /\ \E responseOk \in BOOLEAN :
         LET r == [ reqs[s] EXCEPT !.collab = IF responseOk THEN "ok" ELSE "failed" ]
         IN  /\ Settle(s, AfterSubmit(r, responseOk,
                                      IF responseOk THEN nextJob + 1 ELSE NoJob))
             /\ nextJob' = IF responseOk THEN nextJob + 1 ELSE nextJob
    /\ UNCHANGED << useAzure, credential, held, db, blobs, writes, now, nextId, started >>

(* prisma.videoUpload.update({ where: { id: upload.id }, data:            *)
(* { transcription_job_id: result.job_id } }), then the 202                *)
TranscribeStore(s) ==
    /\ reqs[s].kind = "transcribe" /\ reqs[s].pc = "store"
    /\ LET r == reqs[s]
       IN  IF r.upload.id \notin DOMAIN db
           THEN /\ Settle(s,
                               Caught(r, "P2025", "Failed to start transcription"))
                /\ db' = db
           ELSE /\ db' = [ db EXCEPT ![r.upload.id].transcription_job_id =
                                         IF r.job = NoJob THEN @ ELSE r.job ]
                /\ Settle(s, Respond(r, 202, [ job_id |-> r.job ]))
    /\ UNCHANGED << useAzure, credential, held, blobs, writes, now, nextId, nextJob, started >>

-----------------------------------------------------------------------------
(* Transcription status: GET /api/lectures/:lectureId/transcription *)

(* AfterFindForStatus with a fault: a missing job handle is not looked at *)
AfterFindForStatusUnchecked(r, upload) ==
    IF upload = NoRow THEN Refuse(r, 404, "No video found for this lecture")
    ELSE [ r EXCEPT !.upload = upload, !.job = upload.transcription_job_id,
                    !.pc = "query" ]

(* What the handler does once findFirst has answered *)
AfterFindForStatus(r, upload) ==
    IF upload = NoRow THEN Refuse(r, 404, "No video found for this lecture")
    ELSE IF upload.transcription_job_id = NoJob
    THEN Respond([ r EXCEPT !.upload = upload ], 200, [ status |-> "none" ])
    ELSE [ r EXCEPT !.upload = upload, !.job = upload.transcription_job_id,
                    !.pc = "query" ]

(* The handler up to await fetch(...), or to its response *)
StatusHandler(s) ==
    /\ \E lectureId \in LectureIds :
         \E upload \in FindFirst(lectureId) :
           LET r0 == [ Idle EXCEPT !.kind = "status", !.lectureId = lectureId ]
           IN  Settle(s, AfterFindForStatus(r0, upload))
    /\ UNCHANGED << useAzure, credential, held, db, blobs, writes, now, nextId, nextJob >>

StatusFind(s) ==
    /\ Free(s)
    /\ started' = started + 1
    /\ StatusHandler(s)

(* The same route as called by a client that polls for the status: a    *)
(* poll changes nothing in the stores and is not counted among the         *)
(* requests of a run                                                       *)
StatusPoll(s) ==
    /\ Vacant(s)
    /\ started' = started
    /\ StatusHandler(s)

JobStates == { "processing", "done" }

(* fetch(`${GATEWAY_URL}/api/transcriptions/${job_id}`), and on "done"   *)
(* the two download URLs.  The service names its two outputs               *)
(* (transcript_json_blob, transcript_vtt_blob); they are taken to be the   *)
(* names it was given write URLs for.                                      *)
StatusQuery(s) ==
    /\ reqs[s].kind = "status" /\ reqs[s].pc = "query"
    /\ \E responseOk \in BOOLEAN, state \in JobStates, signOk \in [ 1 .. 2 -> BOOLEAN ] :
         LET r0   == [ reqs[s] EXCEPT !.collab = IF responseOk THEN "ok" ELSE "failed" ]
             u    == r0.upload
             json == JsonName(u.blob_name)
             vtt  == VttName(u.blob_name)
             urls == IF state # "done" THEN << >>
                     ELSE IF useAzure
                     THEN << Grant(json, "read",
                                   GenerateSasUrl(u.blob_container, json, 60, now, signOk[1])),
                             Grant(vtt, "read",
                                   GenerateSasUrl(u.blob_container, vtt, 60, now, signOk[2])) >>
                     ELSE << Grant(json, "read", PlainUrl(GatewayVideoUrl(json))),
                             Grant(vtt, "read", PlainUrl(GatewayVideoUrl(vtt))) >>
         IN  Settle(s,
                 IF ~responseOk
                 THEN Caught(r0, "collaborator", "Failed to get transcription status")
                 ELSE Respond([ r0 EXCEPT !.grants = urls ], 200,
                              [ job_id |-> r0.job, status |-> state ]))
    /\ UNCHANGED << useAzure, credential, held, db, blobs, writes, now, nextId, nextJob, started >>

-----------------------------------------------------------------------------
(* The whole service *)

Next ==
    \/ Tick
    \/ \E s \in Slots : UploadLecture(s)
    \/ \E s \in Slots : UploadAlt(s)
    \/ \E s \in Slots : UploadBlob(s)
    \/ \E s \in Slots : UploadCreate(s)
    \/ \E s \in Slots : ListUploads(s)
    \/ \E s \in Slots : FetchOne(s)
    \/ \E s \in Slots : DeleteFind(s)
    \/ \E s \in Slots : DeleteBlob(s)
    \/ \E s \in Slots : DeleteRecord(s)
    \/ \E s \in Slots : PatchStatus(s)
    \/ \E s \in Slots : SasUrl(s)
    \/ \E s \in Slots : TranscribeFind(s)
    \/ \E s \in Slots : TranscribeSubmit(s)
    \/ \E s \in Slots : TranscribeStore(s)
    \/ \E s \in Slots : StatusFind(s)
    \/ \E s \in Slots : StatusQuery(s)
    \/ \E s \in Slots : StatusPoll(s)
    \/ \E s \in Slots : UploadAnyLecture(s)
    \/ \E s \in Slots : ServeVideo(s)
    \/ ReceiveUrl
    \/ Wait
    \/ Present

Spec == Init /\ [][Next]_vars

(* Ingest and delete *)
NextIngest ==
    \/ Tick
    \/ \E s \in Slots : UploadLecture(s)
    \/ \E s \in Slots : UploadAlt(s)
    \/ \E s \in Slots : UploadBlob(s)
    \/ \E s \in Slots : UploadCreate(s)
    \/ \E s \in Slots : DeleteFind(s)
    \/ \E s \in Slots : DeleteBlob(s)
    \/ \E s \in Slots : DeleteRecord(s)

SpecIngest == Init /\ [][NextIngest]_vars

(* The operations on one asset, by id *)
NextAssets ==
    \/ Tick
    \/ \E s \in Slots : UploadLecture(s)
    \/ \E s \in Slots : UploadBlob(s)
    \/ \E s \in Slots : UploadCreate(s)
    \/ \E s \in Slots : FetchOne(s)
    \/ \E s \in Slots : DeleteFind(s)
    \/ \E s \in Slots : DeleteBlob(s)
    \/ \E s \in Slots : DeleteRecord(s)
    \/ \E s \in Slots : PatchStatus(s)
    \/ \E s \in Slots : SasUrl(s)

SpecAssets == Init /\ [][NextAssets]_vars

(* The transcription workflow over uploaded assets *)
NextTranscription ==
    \/ Tick
    \/ \E s \in Slots : UploadLecture(s)
    \/ \E s \in Slots : UploadBlob(s)
    \/ \E s \in Slots : UploadCreate(s)
    \/ \E s \in Slots : TranscribeFind(s)
    \/ \E s \in Slots : TranscribeSubmit(s)
    \/ \E s \in Slots : TranscribeStore(s)
    \/ \E s \in Slots : StatusFind(s)
    \/ \E s \in Slots : StatusQuery(s)

SpecTranscription == Init /\ [][NextTranscription]_vars

(* Access URLs and the clients that use them *)
NextGrants ==
    \/ \E s \in Slots : UploadLecture(s)
    \/ \E s \in Slots : UploadBlob(s)
    \/ \E s \in Slots : UploadCreate(s)
    \/ \E s \in Slots : SasUrl(s)
    \/ ReceiveUrl
    \/ Wait
    \/ Present

(* The life of an asset as its callers see it: upload, list, fetch, delete *)
NextListing ==
    \/ Tick
    \/ \E s \in Slots : UploadLecture(s)
    \/ \E s \in Slots : UploadBlob(s)
    \/ \E s \in Slots : UploadCreate(s)
    \/ \E s \in Slots : ListUploads(s)
    \/ \E s \in Slots : FetchOne(s)
    \/ \E s \in Slots : DeleteFind(s)
    \/ \E s \in Slots : DeleteBlob(s)
    \/ \E s \in Slots : DeleteRecord(s)

SpecListing == Init /\ [][NextListing]_vars

(* The files of the local backend: written by uploads, read by name *)
NextLocalFiles ==
    \/ Tick
    \/ \E s \in Slots : UploadAnyLecture(s)
    \/ \E s \in Slots : UploadBlob(s)
    \/ \E s \in Slots : UploadCreate(s)
    \/ \E s \in Slots : ServeVideo(s)

SpecLocalFiles == Init /\ [][NextLocalFiles]_vars

(* Uploads and transcriptions, followed by a client that polls *)
NextFollowUp ==
    \/ Tick
    \/ \E s \in Slots : UploadLecture(s)
    \/ \E s \in Slots : UploadBlob(s)
    \/ \E s \in Slots : UploadCreate(s)
    \/ \E s \in Slots : TranscribeFind(s)
    \/ \E s \in Slots : TranscribeSubmit(s)
    \/ \E s \in Slots : TranscribeStore(s)
    \/ \E s \in Slots : StatusPoll(s)
    \/ \E s \in Slots : StatusQuery(s)

SpecFollowUp == Init /\ [][NextFollowUp]_vars

(* The service started with the remote backend configured *)
InitRemote == Init /\ useAzure

SpecGrants == InitRemote /\ [][NextGrants]_vars

-----------------------------------------------------------------------------
(* Properties *)

InFlight == { s \in Slots : reqs[s].pc # "done" }

ObjectOf(row) == << row.blob_container, row.blob_name >>

(* The grants of the requests in flight and of the last response *)
GrantsOf(r) == { r.grants[i] : i \in 1 .. Len(r.grants) }

AllGrants == GrantsOf(response) \cup UNION { GrantsOf(reqs[s]) : s \in Slots }

(* C1: in every ingest request the storage write succeeds before the     *)
(* record is created: every record's object was written successfully at    *)
(* some earlier time, a handler waits at the record creation only after    *)
(* its own write, and a request whose write failed ends in an error        *)
(* without having reached the record creation.                             *)
C1_WriteBeforeRecord ==
    /\ \A id \in DOMAIN db : ObjectOf(db[id]) \in writes
    /\ \A s \in Slots :
         reqs[s].kind = "upload" /\ reqs[s].pc = "create" =>
           /\ reqs[s].blobUrl # NoText
           /\ << IF useAzure THEN AZURE_STORAGE_CONTAINER ELSE LocalContainer,
                 reqs[s].uniqueFilename >> \in writes
    /\ response.kind = "upload" /\ response.status = 201 =>
           /\ response.blobUrl # NoText
           /\ ObjectOf(response.body) \in writes
    /\ response.kind = "upload" /\ response.err = "storage" =>
           /\ response.status = 500
           /\ response.blobUrl = NoText

(* C1 witness: a record exists, and the last request was an upload whose *)
(* storage write failed                                                    *)
C1_Witness ==
    /\ DOMAIN db # {}
    /\ response.kind = "upload" /\ response.err = "storage"

(* C2: delete of an existing asset removes the record and reports        *)
(* success whatever the physical delete did (deleted, already missing, or  *)
(* failed).  A delete that lost a race against another delete of the same  *)
(* record is left aside.                                                   *)
C2_DeleteIgnoresStorageOutcome ==
    response.kind = "delete" /\ response.physical \in { "deleted", "missing", "failed" }
        /\ response.err # "P2025" =>
      /\ response.status = 200
      /\ response.id \notin DOMAIN db

(* C3: no two asset records share a (container, object-name) pair *)
C3_UniqueObjectNames ==
    \A i, j \in DOMAIN db : i # j => ObjectOf(db[i]) # ObjectOf(db[j])

(* C4: an upload whose MIME type is outside the allow-list is rejected   *)
(* before any storage write and any record creation: no handler is ever    *)
(* in flight for such a file, no record has such a type, the request ends  *)
(* in an error, and the step that rejects it leaves the storage backend    *)
(* and the metadata store as they were.                                    *)
C4_RejectedBeforeAnyWrite ==
    /\ [](/\ \A s \in Slots : reqs[s].kind = "upload" => reqs[s].mimetype \in allowedMimeTypes
          /\ \A id \in DOMAIN db : db[id].mime_type \in allowedMimeTypes
          /\ response.kind = "upload" /\ response.mimetype \notin allowedMimeTypes
               /\ response.mimetype # NoValue =>
                 response.status = 500 /\ response.uniqueFilename = NoText)
    /\ [][ response'.kind = "upload" /\ response'.mimetype \notin allowedMimeTypes
             /\ response'.mimetype # NoValue =>
               db' = db /\ blobs' = blobs /\ writes' = writes ]_vars

(* C4 witness: a file of a type outside the allow-list was just refused, *)
(* with objects and records present                                        *)
C4_Witness ==
    /\ response.kind = "upload" /\ response.mimetype = "text/plain"
    /\ response.status = 500
    /\ blobs # {} /\ DOMAIN db # {}

(* C5: the grants issued when transcription starts on the remote backend *)
(* carry exactly the permission asked for: read on the source object,      *)
(* write on the two output names.                                          *)
C5_GrantsCarryRequestedPermission ==
    \A s \in Slots :
      reqs[s].kind = "transcribe" /\ useAzure =>
        \A g \in GrantsOf(reqs[s]) :
          g.token.signed => g.token.permissions = { g.requested }

(* C6: a grant requested with permission read, under either credential   *)
(* strategy, carries read and nothing else.                                *)
C6_ReadGrantsAreReadOnly ==
    \A g \in AllGrants :
      g.requested = "read" =>
        /\ g.token.permissions \subseteq { "read" }
        /\ g.token.signed => g.token.permissions = { "read" }

(* C6 witness: an access URL signed with a user delegation key was just  *)
(* handed out                                                              *)
C6_Witness ==
    /\ response.kind = "sas" /\ response.status = 200
    /\ \E g \in GrantsOf(response) :
         g.requested = "read" /\ g.token.signed /\ g.token.signedBy = "userDelegationKey"

(* C7: once an asset's encoding status is completed or failed, no step   *)
(* changes it to pending or processing.                                    *)
C7_TerminalStatusIsSticky ==
    [][ \A id \in DOMAIN db \cap DOMAIN db' :
          db[id].encoding_status \in { "completed", "failed" } =>
            db'[id].encoding_status \notin { "pending", "processing" } ]_vars

(* C8: every operation that takes an asset id (fetch one, delete, update *)
(* encoding status, access URL) answers not-found when no record has the   *)
(* id, never a server error.                                               *)
C8_UnknownIdIsNotFound ==
    response.kind \in { "fetch", "delete", "patch", "sas" } /\ response.upload = NoRow =>
      response.status = 404

(* C9: when the transcription service answers the submission with a      *)
(* non-success status, the request ends in a failure, never goes on to     *)
(* the store step, holds no job handle, and the step leaves the metadata   *)
(* store as it was; every handle in the store was issued by the service.   *)
C9_FailedSubmissionStoresNothing ==
    /\ [](/\ \A s \in Slots : reqs[s].kind = "transcribe" => reqs[s].collab # "failed"
          /\ response.kind = "transcribe" /\ response.collab = "failed" =>
               response.status = 500 /\ response.job = NoJob
          /\ \A id \in DOMAIN db : db[id].transcription_job_id \in 0 .. nextJob)
    /\ [][ response'.kind = "transcribe" /\ response'.collab = "failed" => db' = db ]_vars

(* C9 witness: a submission for an existing asset was just refused by    *)
(* the transcription service                                               *)
C9_Witness ==
    /\ response.kind = "transcribe" /\ response.collab = "failed"
    /\ response.upload # NoRow /\ response.upload.id \in DOMAIN db

(* C10: start-transcription for a grouping id with no record answers     *)
(* not-found, and a status query whose latest asset has no job handle      *)
(* answers "none", both without a call to the transcription service: no    *)
(* such request is ever parked at a call to it.                            *)
C10_NoneAndNotFoundWithoutCollaborator ==
    /\ \A s \in InFlight :
         reqs[s].kind \in { "transcribe", "status" } => reqs[s].upload # NoRow
    /\ \A s \in InFlight : reqs[s].kind = "status" => reqs[s].job # NoJob
    /\ response.kind \in { "transcribe", "status" } /\ response.upload = NoRow =>
         response.status = 404 /\ response.collab = NoValue
    /\ response.kind = "status" /\ response.upload # NoRow
         /\ response.upload.transcription_job_id = NoJob =>
           /\ response.status = 200
           /\ response.body = [ status |-> "none" ]
           /\ response.collab = NoValue

(* C10 witness: a status query just answered "none" for an asset that    *)
(* was never submitted                                                     *)
C10_Witness ==
    /\ response.kind = "status" /\ response.status = 200
    /\ response.body = [ status |-> "none" ]
    /\ response.upload # NoRow

(* C11: when the signing of an access grant fails, the error does not    *)
(* reach the caller: the request for an access URL ends in success with    *)
(* the plain, unsigned URL of the asset's object, and every unsigned URL   *)
(* handed out on the remote backend is the plain URL of the object it was  *)
(* asked for.                                                              *)
C11_SigningFailureFallsBackToPlainUrl ==
    /\ response.kind = "sas" /\ response.sign = "failed" =>
         /\ response.status = 200
         /\ response.err = NoValue
         /\ response.body.url =
              PlainUrl(AzureUrl(response.upload.blob_container, response.upload.blob_name))
    /\ \A g \in AllGrants :
         useAzure /\ ~g.token.signed =>
           g.token = PlainUrl(AzureUrl(AZURE_STORAGE_CONTAINER, g.blobName))

(* C11 witness: the delegation-key round trip or the signing failed and  *)
(* the request for an access URL was answered with the plain URL           *)
C11_Witness ==
    /\ response.kind = "sas" /\ response.sign = "failed"
    /\ credential = "token"
    /\ response.status = 200 /\ ~response.body.url.signed

SummaryFields ==
    { "id", "lecture_id", "filename", "original_filename", "file_size", "mime_type",
      "blob_url", "encoding_status", "created_at" }

IsSummaryOf(entry, row) ==
    /\ DOMAIN entry = SummaryFields
    /\ \A f \in SummaryFields : entry[f] = row[f]

RecordsOf(lectureId) == { id \in DOMAIN db : db[id].lecture_id = lectureId }

IsInsideRoot(path) ==
    /\ StartsWith(path, LOCAL_STORAGE_DIR \o << "/" >>)
    /\ Len(path) > Len(LOCAL_STORAGE_DIR) + 1

(* C14: on the local backend every file written by an upload and every   *)
(* file served by name lies strictly inside the storage root, and a        *)
(* request for a name that resolves outside the root is refused.           *)
C14_LocalPathsStayInsideRoot ==
    /\ \A o \in writes :
         o[1] = LocalContainer => IsInsideRoot(PathJoin(LOCAL_STORAGE_DIR, o[2]))
    /\ response.kind = "serve" /\ response.status = 200 => IsInsideRoot(response.filePath)
    /\ response.kind = "serve" /\ ~IsInsideRoot(response.filePath) => response.status = 403

(* C15: on both backends a delete of an existing asset removes the       *)
(* asset's object before it removes the record: after a delete that        *)
(* answered success, the object that the record named is no longer in the  *)
(* storage backend.                                                        *)
C15_DeleteRemovesObject ==
    response.kind = "delete" /\ response.status = 200 =>
      ObjectOf(response.upload) \notin blobs

(* C17: an upload that ends in an error leaves nothing behind: when the  *)
(* request has finished with an error after its storage write succeeded,   *)
(* the storage backend no longer holds the object it wrote, unless a       *)
(* record or an upload in flight names the same object.                    *)
C17_FailedUploadLeavesNoObject ==
    response.kind = "upload" /\ response.status = 500 /\ response.blobUrl # NoText =>
      LET obj == << IF useAzure THEN AZURE_STORAGE_CONTAINER ELSE LocalContainer,
                    response.uniqueFilename >>
      IN  obj \in blobs =>
            \/ \E id \in DOMAIN db : ObjectOf(db[id]) = obj
            \/ \E s \in InFlight :
                 reqs[s].kind = "upload" /\ reqs[s].uniqueFilename = response.uniqueFilename

(* C16: a status query reports "none" for a grouping id only if no       *)
(* transcription was ever started for it: never while a record of the      *)
(* grouping id holds the job handle of a transcription that was started    *)
(* and stored.                                                             *)
C16_NoneOnlyIfNeverRequested ==
    response.kind = "status" /\ response.status = 200
        /\ response.body = [ status |-> "none" ] =>
      ~ \E id \in DOMAIN db :
          /\ db[id].lecture_id = response.lectureId
          /\ db[id].transcription_job_id # NoJob

=============================================================================
